---- MODULE Spec2Model ----
(***************************************************************************)
(* Model of the Tic Tac Toe App component (src/unnamed/part_000, which is  *)
(* src/tic_tac_toe_frontend/src/App.js extended with the chat ledger).     *)
(*                                                                         *)
(* The component is a React function component.  Its state lives in        *)
(* useState hooks; the handlers are closures created by the last render    *)
(* and therefore read the values of that render (the rendered snapshot),   *)
(* while the setters queue new hook values that become visible to the      *)
(* closures only at the next render.  The outcome is stored by a           *)
(* useEffect that runs after a render whose dependencies [squares,         *)
(* isXNext] changed.  The model keeps both the hook values and the         *)
(* rendered snapshot, and has one action per handler, one for the render   *)
(* and one for the effect.                                                 *)
(***************************************************************************)
EXTENDS Integers, Sequences, FiniteSets, TLC

\* JavaScript null (falsy); the marks 'X' and 'O' are truthy strings.
Null == "null"

Cells == 0..8

Marks == {"X", "O"}

\* Bounds of the model: messages in the log and reaction commands in a run.
MaxMsgs == 2
MaxReacts == 3
\* Clicks counted as accepted between two resets in the runs that count
\* them (SpecClicks): one more than the nine cells of the board.
MaxAccepted == 10
\* Messages and reaction commands in the runs that play a game next to the
\* ledger (SpecGame).
MaxGameMsgs == 1
MaxGameReacts == 2

\* Inputs of the runs of the whole component (Spec), which interleave the
\* board commands with the ledger commands: two cells, one text, reactions
\* on the first message.  The runs of the board engine alone (SpecBoard)
\* click every cell, the runs of the ledger alone (SpecLedger) draw from
\* TextInputs, IndexInputs and SymbolInputs below.
ClickInputs == {0, 4}

\* Cells clicked in the runs that play a game to its end next to the ledger
\* (SpecGame): the first two rows without cell 5, enough for a win.
GameInputs == {0, 1, 2, 3, 4}

\* const EMOJIS = [...]: grin, party, thumbs-up, astonished, heart.
EMOJIS == <<"grin", "party", "thumbsup", "wow", "heart">>

\* const MATCH_REACTION_ICON: the trophy.
MATCH_REACTION_ICON == "trophy"

\* The fixed reaction alphabet as a set.
Alphabet == {EMOJIS[k] : k \in 1..Len(EMOJIS)}

\* Symbols handed to handleReact by the emoji buttons (EMOJIS.map): two of
\* the five.  The trophy button calls handleMatchReaction instead.
SymbolInputs == {"thumbsup", "grin"}

\* Message indices handed to the reaction handlers (0-based as in the
\* source); MaxMsgs is always out of range.
IndexInputs == 0..MaxMsgs

\* Texts typed into the chat input, as sequences of characters.
TextInputs == { <<>>, <<" ", "U+00A0", "\t">>, <<" ", " ", "h", "i", " ", " ">> }

\* Texts typed in the runs that watch the order of the log (SpecLog): two
\* that differ once trimmed, and a blank one.
LogTexts == { <<"U+3000", " ", "h", "i", "\n", "U+FEFF">>, <<"y", "o">>, <<"\f">> }

\* Characters String.prototype.trim removes: the WhiteSpace and the
\* LineTerminator code points of ECMAScript (TAB, VT, FF, SP, NBSP, ZWNBSP,
\* the space separators; LF, CR, LS, PS).  A character without an escape is
\* written as its code point.
WhiteSpace ==
  {"\t", "U+000B", "\f", " ", "U+00A0", "U+FEFF",
   "U+1680", "U+2000", "U+2001", "U+2002", "U+2003", "U+2004", "U+2005",
   "U+2006", "U+2007", "U+2008", "U+2009", "U+200A", "U+202F", "U+205F",
   "U+3000",
   "\n", "\r", "U+2028", "U+2029"}

\* Key of the trophy counter in the bookkeeping of issued commands.
MatchKey == "matchReactions"

VARIABLES
  squares,       \* useState(initialState): hook value, 9 cells
  isXNext,       \* useState(true)
  status,        \* useState('')
  winner,        \* useState(null)
  isDraw,        \* useState(false)
  messages,      \* useState([]): sequence of {text, reactions, matchReactions}
  chatInput,     \* useState("")
  rSquares,      \* squares as seen by the closures of the last render
  rIsXNext,      \* isXNext as seen by the closures of the last render
  rWinner,       \* winner as seen by the closures of the last render
  rChatInput,    \* chatInput as seen by the closures of the last render
  rMessages,     \* messages as rendered by the last render
  depsChanged,   \* squares / isXNext were set since the last render
  effectPending, \* the status effect of the last render has not run yet
  renderQueued,  \* a setter changed a hook value since the last pass
                 \* through App: a pass is queued
  messagesChanged, \* setMessages stored a new array since the last
                 \* committed render
  rStatus,       \* status as committed by the last render
  rIsDraw,       \* isDraw as committed by the last render
  rInitialIsSquares, \* the initialState array of the last render is the
                 \* array that render read from the squares hook: only in
                 \* the first render, where useState stored it
  resetStage,    \* history: 1 after handleReset, 2 once rendered, 3 once its
                 \* effect has run; 0 when a move was accepted since
  issued,        \* history: reaction commands issued per <<message, key>>
  reacts,        \* history: reaction commands issued in total
  accepted       \* history: clicks that passed the guard of handleClick
                 \* since the last handleReset, counted in SpecClicks

\* The hook values of the board engine and of the chat ledger.
boardState == <<squares, isXNext, status, winner, isDraw>>

chatState == <<messages, chatInput>>

\* What the last render showed and what its closures captured.
snapshot ==
  <<rSquares, rIsXNext, rWinner, rChatInput, rMessages, rStatus, rIsDraw,
    rInitialIsSquares>>

\* The scheduling of the status effect.
effectState == <<depsChanged, effectPending>>

progVars ==
  <<boardState, chatState, snapshot, effectState, renderQueued, messagesChanged>>

histVars == <<resetStage, issued, reacts, accepted>>

vars == <<progVars, histVars>>

\* Array(9).fill(null)
initialState == [i \in Cells |-> Null]

\* The eight lines, in the order of the source (0-based cell indices).
lines == << <<0, 1, 2>>, <<3, 4, 5>>, <<6, 7, 8>>,
            <<0, 3, 6>>, <<1, 4, 7>>, <<2, 5, 8>>,
            <<0, 4, 8>>, <<2, 4, 6>> >>

\* The test of one line: sq[a] && sq[a] === sq[b] && sq[a] === sq[c]
lineWon(sq, line) ==
  /\ sq[line[1]] # Null
  /\ sq[line[1]] = sq[line[2]]
  /\ sq[line[1]] = sq[line[3]]

\* for (let [a,b,c] of lines) { if (...) return sq[a]; } return null;
RECURSIVE scanWinner(_, _)
scanWinner(sq, k) ==
  IF k > Len(lines) THEN Null
  ELSE IF lineWon(sq, lines[k]) THEN sq[lines[k][1]]
  ELSE scanWinner(sq, k + 1)

\* Variant: the scan stops before the last line (the anti-diagonal).
calculateWinnerNoAnti(sq) ==
  LET won(k) == lineWon(sq, lines[k])
      first == {k \in 1..(Len(lines) - 1) :
                  won(k) /\ \A j \in 1..(k - 1) : ~won(j)}
  IN IF first = {} THEN Null ELSE sq[lines[CHOOSE k \in first : TRUE][1]]

calculateWinner(sq) == scanWinner(sq, 1)

\* line.includes(idx)
includes(line, idx) == \E j \in 1..Len(line) : line[j] = idx

\* for (let line of lines) { if (won && line.includes(idx)) return true; } return false;
RECURSIVE scanWinning(_, _, _)
scanWinning(idx, sq, k) ==
  IF k > Len(lines) THEN FALSE
  ELSE IF lineWon(sq, lines[k]) /\ includes(lines[k], idx) THEN TRUE
  ELSE scanWinning(idx, sq, k + 1)

isCellWinning(idx, sq) == scanWinning(idx, sq, 1)

\* squares.every((sq) => sq)
every(sq) == \A i \in Cells : sq[i] # Null

\* borderColor condition of renderCell: (winner && isCellWinning(idx, squares))
highlighted(idx) == rWinner # Null /\ isCellWinning(idx, rSquares)

\* `Player ${win === 'X' ? '1' : '2'} (${win}) wins!`
winStatus(win) == IF win = "X" THEN "Player 1 (X) wins!" ELSE "Player 2 (O) wins!"

\* `Next: Player ${isXNext ? '1 (X)' : '2 (O)'}`
nextStatus(xn) == IF xn THEN "Next: Player 1 (X)" ELSE "Next: Player 2 (O)"

\* The counters of the history: one per message position and symbol or trophy.
Keys == (0..(MaxMsgs - 1)) \X (SymbolInputs \cup {MatchKey})

Init ==
  /\ squares = initialState
  /\ isXNext = TRUE
  /\ status = ""
  /\ winner = Null
  /\ isDraw = FALSE
  /\ messages = <<>>
  /\ chatInput = <<>>
  /\ rSquares = initialState
  /\ rIsXNext = TRUE
  /\ rWinner = Null
  /\ rChatInput = <<>>
  /\ rMessages = <<>>
  /\ depsChanged = FALSE
  /\ effectPending = TRUE
  /\ renderQueued = FALSE
  /\ messagesChanged = FALSE
  /\ rStatus = ""
  /\ rIsDraw = FALSE
  /\ rInitialIsSquares = TRUE
  /\ resetStage = 0
  /\ issued = [k \in Keys |-> 0]
  /\ reacts = 0
  /\ accepted = 0

\* Variant: the mark does not follow the turn.
markAlwaysX(xn) == "X"

\* isXNext ? 'X' : 'O'
markOf(xn) == IF xn THEN "X" ELSE "O"

\* The derived outcome, as the three branches of the effect decide it.
outcome(sq) ==
  IF calculateWinner(sq) # Null THEN "Win"
  ELSE IF every(sq) THEN "Draw"
  ELSE "InProgress"

\* Variant: the guard tests the winner only.
clickRejectedWinnerOnly(idx) == rWinner # Null

\* The guard of handleClick: if (squares[idx] || winner) return;
clickRejected(idx) == rSquares[idx] # Null \/ rWinner # Null

\* function handleClick(idx)
handleClick(idx) ==
  IF clickRejected(idx)
  THEN UNCHANGED progVars
  ELSE /\ squares' = [rSquares EXCEPT ![idx] = markOf(rIsXNext)]
       /\ isXNext' = ~rIsXNext
       /\ depsChanged' = TRUE
       /\ renderQueued' = TRUE
       /\ UNCHANGED <<status, winner, isDraw, effectPending>>
       /\ UNCHANGED <<chatState, snapshot, messagesChanged>>

\* Variant: the turn is not reset.
handleResetKeepTurn ==
  /\ squares' = initialState
  /\ status' = ""
  /\ winner' = Null
  /\ isDraw' = FALSE
  /\ depsChanged' = ~rInitialIsSquares
  /\ renderQueued' = (renderQueued \/ ~rInitialIsSquares
                        \/ <<isXNext, status', winner', isDraw'>>
                             # <<isXNext, status, winner, isDraw>>)
  /\ UNCHANGED <<isXNext, chatState, snapshot, effectPending, messagesChanged>>

\* Variant: "Play Again" also clears the chat log.
handleResetClearsChat ==
  /\ squares' = initialState
  /\ isXNext' = TRUE
  /\ status' = ""
  /\ winner' = Null
  /\ isDraw' = FALSE
  /\ messages' = <<>>
  /\ depsChanged' = ~rInitialIsSquares
  /\ renderQueued' = (renderQueued \/ ~rInitialIsSquares
                        \/ <<isXNext', status', winner', isDraw', messages'>>
                             # <<isXNext, status, winner, isDraw, messages>>)
  /\ messagesChanged' = TRUE
  /\ UNCHANGED <<chatInput, snapshot, effectPending>>

\* function handleReset(): const initialState = Array(9).fill(null) is
\* evaluated in every render.  In the first render it is the array that
\* useState(initialState) stored: setSquares(initialState) then hands the
\* hook the array the render read and setIsXNext(true) the value it read,
\* so the dependencies of the effect are as rendered, whatever was set
\* since.  In every later render it is a fresh array.  A setter called with
\* the value its hook holds queues no render.
handleReset ==
  /\ squares' = initialState
  /\ isXNext' = TRUE
  /\ status' = ""
  /\ winner' = Null
  /\ isDraw' = FALSE
  /\ depsChanged' = ~rInitialIsSquares
  /\ renderQueued' = (renderQueued \/ ~rInitialIsSquares
                        \/ <<isXNext', status', winner', isDraw'>>
                             # <<isXNext, status, winner, isDraw>>)
  /\ UNCHANGED <<chatState, snapshot, effectPending, messagesChanged>>

\* The body of the useEffect, run with the squares / isXNext of its render.
statusEffect ==
  /\ effectPending
  /\ effectPending' = FALSE
  /\ LET win == calculateWinner(rSquares) IN
       IF win # Null
       THEN /\ winner' = win
            /\ status' = winStatus(win)
            /\ isDraw' = FALSE
       ELSE IF every(rSquares)
       THEN /\ isDraw' = TRUE
            /\ status' = "It's a draw!"
            /\ winner' = Null
       ELSE /\ isDraw' = FALSE
            /\ winner' = Null
            /\ status' = nextStatus(rIsXNext)
  /\ renderQueued' = (renderQueued \/ <<status', winner', isDraw'>>
                                        # <<status, winner, isDraw>>)
  /\ UNCHANGED <<squares, isXNext, depsChanged>>
  /\ UNCHANGED <<chatState, snapshot, messagesChanged>>

\* Some hook holds a value other than the one the last render committed:
\* squares (another array, or isXNext flipped: depsChanged), messages
\* (another array), or status, winner, isDraw, chatInput by value.
hookChanged ==
  \/ depsChanged
  \/ messagesChanged
  \/ <<isXNext, status, winner, isDraw, chatInput>>
       # <<rIsXNext, rStatus, rWinner, rIsDraw, rChatInput>>

\* A pass through App, queued by a setter that changed a hook value.  When
\* some hook differs from what was committed, the pass is committed: the
\* closures now see the current hook values and a fresh initialState, and
\* the effect is scheduled when its dependencies [squares, isXNext]
\* changed.  When every hook is back at its committed value the pass bails
\* out: its result is dropped and the closures of the committed render stay
\* attached.  React flushes the effect of the previous render before
\* rendering again.
render ==
  /\ ~effectPending
  /\ renderQueued
  /\ renderQueued' = FALSE
  /\ IF hookChanged
     THEN /\ rInitialIsSquares' = FALSE
          /\ rSquares' = squares
          /\ rIsXNext' = isXNext
          /\ rWinner' = winner
          /\ rChatInput' = chatInput
          /\ rMessages' = messages
          /\ rStatus' = status
          /\ rIsDraw' = isDraw
          /\ messagesChanged' = FALSE
          /\ effectPending' = depsChanged
          /\ depsChanged' = FALSE
     ELSE UNCHANGED <<snapshot, effectState, messagesChanged>>
  /\ UNCHANGED <<boardState, chatState>>

\* String.prototype.trim: drop the white space at both ends.
RECURSIVE trimStart(_)
trimStart(t) ==
  IF t = <<>> THEN <<>>
  ELSE IF Head(t) \in WhiteSpace THEN trimStart(Tail(t))
  ELSE t

RECURSIVE trimEnd(_)
trimEnd(t) ==
  IF t = <<>> THEN <<>>
  ELSE IF t[Len(t)] \in WhiteSpace THEN trimEnd(SubSeq(t, 1, Len(t) - 1))
  ELSE t

\* Variant: only the leading white space is dropped.
trimStartOnly(t) == trimStart(t)

trim(t) == trimEnd(trimStart(t))

\* onChange={e => setChatInput(e.target.value)}
onChange(value) ==
  /\ chatInput' = value
  /\ renderQueued' = (renderQueued \/ value # chatInput)
  /\ UNCHANGED <<boardState, messages, snapshot, effectState, messagesChanged>>

\* Variant: the new message is put in front of the log.
handleSendMessagePrepend ==
  LET trimmed == trim(rChatInput) IN
    IF trimmed = <<>>
    THEN UNCHANGED progVars
    ELSE /\ messages' = << [text |-> trimmed,
                            reactions |-> <<>>,
                            matchReactions |-> 0] >> \o messages
         /\ chatInput' = <<>>
         /\ renderQueued' = TRUE
         /\ messagesChanged' = TRUE
         /\ UNCHANGED <<boardState, snapshot, effectState>>

\* function handleSendMessage(e)
handleSendMessage ==
  LET trimmed == trim(rChatInput) IN
    IF trimmed = <<>>
    THEN UNCHANGED progVars
    ELSE /\ messages' = Append(messages,
                               [text |-> trimmed,
                                reactions |-> <<>>,
                                matchReactions |-> 0])
         /\ chatInput' = <<>>
         /\ renderQueued' = TRUE
         /\ messagesChanged' = TRUE
         /\ UNCHANGED <<boardState, snapshot, effectState>>

\* m.reactions && m.reactions[emoji] ? m.reactions[emoji] : 0
countOf(reactions, emoji) ==
  IF emoji \in DOMAIN reactions /\ reactions[emoji] # 0
  THEN reactions[emoji]
  ELSE 0

\* Variant: the spread of the other entries is forgotten.
reactedNoSpread(reactions, emoji) ==
  [k \in {emoji} |-> countOf(reactions, emoji) + 1]

\* { ...m.reactions, [emoji]: (...) + 1 }
reacted(reactions, emoji) ==
  [k \in (DOMAIN reactions) \cup {emoji} |->
     IF k = emoji THEN countOf(reactions, emoji) + 1 ELSE reactions[k]]

\* Variant: the new array is computed from the rendered messages instead of
\* the updater's argument.
handleReactStale(idx, emoji) ==
  /\ messages' = [i \in 1..Len(rMessages) |->
                    IF i - 1 = idx
                    THEN [rMessages[i] EXCEPT
                            !.reactions = reacted(rMessages[i].reactions, emoji)]
                    ELSE rMessages[i]]
  /\ renderQueued' = TRUE
  /\ messagesChanged' = TRUE
  /\ UNCHANGED <<boardState, chatInput, snapshot, effectState>>

\* Variant: an index past the end falls on the last message.
handleReactClamp(idx, emoji) ==
  /\ messages' = [i \in 1..Len(messages) |->
                    IF i - 1 = idx \/ (idx >= Len(messages) /\ i = Len(messages))
                    THEN [messages[i] EXCEPT
                            !.reactions = reacted(messages[i].reactions, emoji)]
                    ELSE messages[i]]
  /\ renderQueued' = TRUE
  /\ messagesChanged' = TRUE
  /\ UNCHANGED <<boardState, chatInput, snapshot, effectState>>

\* function handleReact(idx, emoji): the updater maps over the current
\* messages, whatever render the calling closure belongs to.  msgs.map
\* returns a new array for every idx, so a render is queued.
handleReact(idx, emoji) ==
  /\ messages' = [i \in 1..Len(messages) |->
                    IF i - 1 = idx
                    THEN [messages[i] EXCEPT
                            !.reactions = reacted(messages[i].reactions, emoji)]
                    ELSE messages[i]]
  /\ renderQueued' = TRUE
  /\ messagesChanged' = TRUE
  /\ UNCHANGED <<boardState, chatInput, snapshot, effectState>>

\* Variant: a second click takes the trophy back.
matchedToggle(n) == IF n # 0 THEN n - 1 ELSE 1

\* m.matchReactions ? m.matchReactions + 1 : 1
matched(n) == IF n # 0 THEN n + 1 ELSE 1

\* function handleMatchReaction(idx)
handleMatchReaction(idx) ==
  /\ messages' = [i \in 1..Len(messages) |->
                    IF i - 1 = idx
                    THEN [messages[i] EXCEPT
                            !.matchReactions = matched(messages[i].matchReactions)]
                    ELSE messages[i]]
  /\ renderQueued' = TRUE
  /\ messagesChanged' = TRUE
  /\ UNCHANGED <<boardState, chatInput, snapshot, effectState>>

(***************************************************************************)
(* The commands as steps of a run: the handler together with the history   *)
(* it leaves.                                                              *)
(***************************************************************************)

Click(idx) ==
  /\ handleClick(idx)
  /\ resetStage' = IF clickRejected(idx) THEN resetStage ELSE 0
  /\ UNCHANGED <<issued, reacts, accepted>>

Reset ==
  /\ handleReset
  /\ resetStage' = 1
  /\ UNCHANGED <<issued, reacts, accepted>>

Effect ==
  /\ statusEffect
  /\ resetStage' = IF resetStage = 2 THEN 3 ELSE resetStage
  /\ UNCHANGED <<issued, reacts, accepted>>

Render ==
  /\ render
  /\ resetStage' = IF resetStage = 1 THEN 2 ELSE resetStage
  /\ UNCHANGED <<issued, reacts, accepted>>

\* A click whose acceptance is counted, up to MaxAccepted between resets.
ClickCounted(idx) ==
  /\ clickRejected(idx) \/ accepted < MaxAccepted
  /\ handleClick(idx)
  /\ resetStage' = IF clickRejected(idx) THEN resetStage ELSE 0
  /\ accepted' = IF clickRejected(idx) THEN accepted ELSE accepted + 1
  /\ UNCHANGED <<issued, reacts>>

\* A reset that starts the count of accepted clicks again.
ResetCounted ==
  /\ handleReset
  /\ resetStage' = 1
  /\ accepted' = 0
  /\ UNCHANGED <<issued, reacts>>

Change(value) ==
  /\ onChange(value)
  /\ UNCHANGED histVars

Send ==
  /\ Len(messages) < MaxMsgs
  /\ handleSendMessage
  /\ UNCHANGED histVars

React(idx, emoji) ==
  /\ reacts < MaxReacts
  /\ handleReact(idx, emoji)
  /\ IF idx < Len(messages)
     THEN /\ issued' = [issued EXCEPT ![<<idx, emoji>>] = @ + 1]
          /\ reacts' = reacts + 1
     ELSE UNCHANGED <<issued, reacts>>
  /\ UNCHANGED <<resetStage, accepted>>

MatchReact(idx) ==
  /\ reacts < MaxReacts
  /\ handleMatchReaction(idx)
  /\ IF idx < Len(messages)
     THEN /\ issued' = [issued EXCEPT ![<<idx, MatchKey>>] = @ + 1]
          /\ reacts' = reacts + 1
     ELSE UNCHANGED <<issued, reacts>>
  /\ UNCHANGED <<resetStage, accepted>>

\* The board engine alone: any number of board commands.
NextBoard ==
  \/ \E idx \in Cells : Click(idx)
  \/ Reset
  \/ Effect
  \/ Render

SpecBoard == Init /\ [][NextBoard]_vars

\* The board engine under React's scheduling: a render that is due is
\* carried out, and the effect of a render is run.
SpecBoardFair == SpecBoard /\ WF_vars(Render) /\ WF_vars(Effect)

\* The board engine with the accepted clicks counted.
NextClicks ==
  \/ \E idx \in Cells : ClickCounted(idx)
  \/ ResetCounted
  \/ Effect
  \/ Render

SpecClicks == Init /\ [][NextClicks]_vars

\* The chat ledger alone: the board stays as constructed.
NextLedger ==
  \/ Effect
  \/ Render
  \/ \E value \in TextInputs : Change(value)
  \/ Send
  \/ \E idx \in IndexInputs, emoji \in SymbolInputs : React(idx, emoji)
  \/ \E idx \in IndexInputs : MatchReact(idx)

SpecLedger == Init /\ [][NextLedger]_vars

\* The chat ledger with texts that differ, one reaction symbol.
NextLog ==
  \/ Effect
  \/ Render
  \/ \E value \in LogTexts : Change(value)
  \/ Send
  \/ \E idx \in IndexInputs : React(idx, "thumbsup")
  \/ \E idx \in IndexInputs : MatchReact(idx)

SpecLog == Init /\ [][NextLog]_vars

\* The whole component: the board commands interleaved with the ledger
\* commands.
Next ==
  \/ \E idx \in ClickInputs : Click(idx)
  \/ Reset
  \/ Effect
  \/ Render
  \/ Change(<<" ", " ", "h", "i", " ", " ">>)
  \/ Send
  \/ \E emoji \in SymbolInputs : React(0, emoji)
  \/ MatchReact(0)

Spec == Init /\ [][Next]_vars

\* The ledger commands of the runs that play a game: a message is sent while
\* the log holds fewer than MaxGameMsgs, a reaction or a trophy is given
\* while fewer than MaxGameReacts have been.
SendGame ==
  /\ Len(messages) < MaxGameMsgs
  /\ Send

ReactGame(idx, emoji) ==
  /\ reacts < MaxGameReacts
  /\ React(idx, emoji)

MatchReactGame(idx) ==
  /\ reacts < MaxGameReacts
  /\ MatchReact(idx)

\* A game played to a win and reset, next to a ledger of messages with one
\* reaction symbol and the trophy.
NextGame ==
  \/ \E idx \in GameInputs : Click(idx)
  \/ Reset
  \/ Effect
  \/ Render
  \/ Change(<<"y", "o">>)
  \/ SendGame
  \/ ReactGame(0, "thumbsup")
  \/ MatchReactGame(0)

SpecGame == Init /\ [][NextGame]_vars

\* The outcome of arbitrary boards: every assignment of the nine cells, the
\* effect of the render that shows it still to run.
InitOutcome ==
  /\ squares \in [Cells -> Marks \cup {Null}]
  /\ isXNext \in BOOLEAN
  /\ status = ""
  /\ winner = Null
  /\ isDraw = FALSE
  /\ messages = <<>>
  /\ chatInput = <<>>
  /\ rSquares = squares
  /\ rIsXNext = isXNext
  /\ rWinner = Null
  /\ rChatInput = <<>>
  /\ rMessages = <<>>
  /\ depsChanged = FALSE
  /\ effectPending = TRUE
  /\ renderQueued = FALSE
  /\ messagesChanged = FALSE
  /\ rStatus = ""
  /\ rIsDraw = FALSE
  /\ rInitialIsSquares = FALSE
  /\ resetStage = 0
  /\ issued = [k \in Keys |-> 0]
  /\ reacts = 0
  /\ accepted = 0

NextOutcome == Effect

SpecOutcome == InitOutcome /\ [][NextOutcome]_vars

(***************************************************************************)
(* Vocabulary of the properties.                                           *)
(***************************************************************************)

\* Number of cells of sq holding mark m.
count(sq, m) == Cardinality({i \in Cells : sq[i] = m})

\* The cells of the k-th line.
lineCells(k) == {lines[k][j] : j \in 1..3}

\* The k-th line holds three identical marks.
uniform(sq, k) == \E m \in Marks : \A i \in lineCells(k) : sq[i] = m

\* The won lines of sq.
wonLines(sq) == {k \in DOMAIN lines : uniform(sq, k)}

\* The cells of the first won line in the fixed order, none if no line is won.
firstWonCells(sq) ==
  IF wonLines(sq) = {} THEN {}
  ELSE lineCells(CHOOSE k \in wonLines(sq) : \A j \in wonLines(sq) : k <= j)

\* The outcome stored by the effect.
storedOutcome ==
  IF winner # Null THEN "Win" ELSE IF isDraw THEN "Draw" ELSE "InProgress"

(***************************************************************************)
(* C1: in every reachable state the number of X marks minus the number of  *)
(* O marks is 0 or 1, on the board held by the hook and on the board of    *)
(* the last render.                                                        *)
(***************************************************************************)
C1_MarkCount ==
  /\ count(squares, "X") - count(squares, "O") \in {0, 1}
  /\ count(rSquares, "X") - count(rSquares, "O") \in {0, 1}

\* A full board reached by alternating moves: five X and four O.
C1_Witness ==
  /\ count(squares, "X") = 5
  /\ count(squares, "O") = 4
  /\ rSquares = squares

(***************************************************************************)
(* C2: once the outcome of the board is not InProgress, a handleClick      *)
(* leaves the board and the turn unchanged.  Stated for the case most      *)
(* favourable to the code: the ended board is the one the last render      *)
(* showed.                                                                 *)
(***************************************************************************)
C2_NoMoveAfterEnd ==
  [][\A idx \in Cells :
       (/\ rSquares = squares
        /\ outcome(squares) # "InProgress"
        /\ handleClick(idx))
       => UNCHANGED <<squares, isXNext>>]_vars

(***************************************************************************)
(* C3: for every board, once the effect has run the stored outcome is Win  *)
(* iff some line holds three identical marks, Draw iff the board is full   *)
(* and no line is won, and InProgress otherwise.                           *)
(***************************************************************************)
C3_Outcome ==
  ~effectPending =>
    LET won == wonLines(rSquares) # {}
        full == \A i \in Cells : rSquares[i] \in Marks
        expected == IF won THEN "Win" ELSE IF full THEN "Draw" ELSE "InProgress"
    IN /\ storedOutcome = expected
       /\ outcome(rSquares) = expected
       /\ winner # Null <=> won
       /\ isDraw <=> (full /\ ~won)

\* A full board that contains a won line has been classified: Win, not Draw.
C3_Witness ==
  /\ ~effectPending
  /\ \A i \in Cells : rSquares[i] \in Marks
  /\ wonLines(rSquares) # {}
  /\ winner # Null
  /\ ~isDraw

(***************************************************************************)
(* C4: a handleClick on a cell that is occupied (on the board of the hook  *)
(* or on the rendered board) changes neither the board, nor the turn, nor  *)
(* the stored winner and draw flag.                                        *)
(***************************************************************************)
C4_OccupiedNoOp ==
  [][\A idx \in Cells :
       (/\ squares[idx] # Null \/ rSquares[idx] # Null
        /\ handleClick(idx))
       => UNCHANGED <<squares, isXNext, winner, isDraw>>]_vars

\* A game in progress with an occupied cell: a click on it is refused for
\* being occupied, not for the game being over.
C4_Witness ==
  /\ rSquares = squares
  /\ squares[4] = "X"
  /\ squares[0] = "O"
  /\ rWinner = Null
  /\ winner = Null
  /\ outcome(squares) = "InProgress"

(***************************************************************************)
(* C5: a handleClick(idx) that passes its guard (the cell is empty and no  *)
(* winner is stored, as the handler reads them) sets cell idx of the board *)
(* to the mark of the player whose turn it is, leaves the other eight      *)
(* cells of the board unchanged, and flips the turn.                       *)
(***************************************************************************)
C5_AcceptedMove ==
  [][\A idx \in Cells :
       (handleClick(idx) /\ ~clickRejected(idx))
       => /\ squares'[idx] = markOf(isXNext)
          /\ \A j \in Cells \ {idx} : squares'[j] = squares[j]
          /\ isXNext' = ~isXNext]_vars

(***************************************************************************)
(* C6: once a handleReset has been rendered and the effect of that render  *)
(* has run, with no move accepted since, the engine is in its initial      *)
(* state: empty board, turn X, no winner, no draw, status announcing       *)
(* player 1 (X).                                                           *)
(***************************************************************************)
C6_ResetRestoresInitial ==
  resetStage = 3 =>
    /\ squares = initialState
    /\ isXNext = TRUE
    /\ winner = Null
    /\ isDraw = FALSE
    /\ status = "Next: Player 1 (X)"

\* The reset and its effect have run.
C6_Witness ==
  /\ resetStage = 3
  /\ ~effectPending
  /\ rSquares = initialState

(***************************************************************************)
(* C7: a cell is highlighted iff the outcome is Win (a winner is stored,   *)
(* as the component shows it) and the cell belongs to the first won line   *)
(* in the fixed order.  Stated for the case most favourable to the code:   *)
(* the rendered boards on which at most one mark owns a won line, as in a  *)
(* game that stopped at the win.                                           *)
(***************************************************************************)
C7_FirstLineOnly ==
  (\A j, k \in wonLines(rSquares) : rSquares[lines[j][1]] = rSquares[lines[k][1]])
  => \A idx \in Cells :
       highlighted(idx) <=> (rWinner # Null /\ idx \in firstWonCells(rSquares))

(***************************************************************************)
(* C8: every reaction count and every matchReactions count is a natural    *)
(* number, and no step of the component lowers one or drops a message.     *)
(***************************************************************************)
C8_CountsMonotonic ==
  /\ [](\A i \in 1..Len(messages) :
          /\ messages[i].matchReactions \in Nat
          /\ \A s \in DOMAIN messages[i].reactions :
               messages[i].reactions[s] \in Nat)
  /\ [][\A i \in 1..Len(messages) :
          /\ i <= Len(messages')
          /\ messages'[i].matchReactions >= messages[i].matchReactions
          /\ \A s \in DOMAIN messages[i].reactions :
               countOf(messages'[i].reactions, s) >= messages[i].reactions[s]]_vars

\* Counts have grown, with two moves made in the same run.
C8_Witness ==
  /\ squares[4] = "O"
  /\ \E i \in 1..Len(messages) :
       /\ messages[i].matchReactions = 2
       /\ \E s \in DOMAIN messages[i].reactions : messages[i].reactions[s] = 1

(***************************************************************************)
(* C9: the count of symbol s on message i equals the number of             *)
(* handleReact(i, s) commands issued for it, whatever was rendered between *)
(* them.                                                                   *)
(***************************************************************************)
C9_NoLostIncrement ==
  \A i \in 0..(Len(messages) - 1) : \A s \in SymbolInputs :
    countOf(messages[i + 1].reactions, s) = issued[<<i, s>>]

\* Two reactions with the same symbol on message 0 issued against one
\* render, and a reaction on message 1.
C9_Witness ==
  /\ Len(messages) = 2
  /\ Len(rMessages) = 2
  /\ issued[<<0, "thumbsup">>] = 2
  /\ countOf(rMessages[1].reactions, "thumbsup") = 0
  /\ countOf(messages[1].reactions, "thumbsup") = 2
  /\ issued[<<1, "thumbsup">>] = 1

(***************************************************************************)
(* C10: handleReact(i, s) on an existing message raises the count of s by  *)
(* exactly 1 and handleMatchReaction(i) raises matchReactions by exactly   *)
(* 1; the other counters of the message, its text and the other messages   *)
(* are unchanged.  Two handleReact(0, thumbs-up) and nothing else on       *)
(* message 0 give count 2 and leave the other symbols at 0.                *)
(***************************************************************************)
C10_ExactIncrement ==
  /\ [][\A idx \in IndexInputs :
          /\ \A emoji \in SymbolInputs :
               (/\ idx < Len(messages)
                /\ messages' # messages
                /\ handleReact(idx, emoji)) =>
                 LET old == messages[idx + 1]
                     new == messages'[idx + 1]
                 IN /\ Len(messages') = Len(messages)
                    /\ countOf(new.reactions, emoji)
                         = countOf(old.reactions, emoji) + 1
                    /\ DOMAIN new.reactions = DOMAIN old.reactions \cup {emoji}
                    /\ \A e \in DOMAIN new.reactions \ {emoji} :
                         new.reactions[e] = old.reactions[e]
                    /\ new.matchReactions = old.matchReactions
                    /\ new.text = old.text
                    /\ \A j \in 1..Len(messages) :
                         j # idx + 1 => messages'[j] = messages[j]
          /\ (/\ idx < Len(messages)
              /\ messages' # messages
              /\ handleMatchReaction(idx)) =>
               LET old == messages[idx + 1]
                   new == messages'[idx + 1]
               IN /\ Len(messages') = Len(messages)
                  /\ new.matchReactions = old.matchReactions + 1
                  /\ new.reactions = old.reactions
                  /\ new.text = old.text
                  /\ \A j \in 1..Len(messages) :
                       j # idx + 1 => messages'[j] = messages[j]]_vars
  /\ []((/\ issued[<<0, "thumbsup">>] = 2
         /\ \A s \in SymbolInputs \ {"thumbsup"} : issued[<<0, s>>] = 0)
        => /\ countOf(messages[1].reactions, "thumbsup") = 2
           /\ \A e \in (Alphabet \cup SymbolInputs) \ {"thumbsup"} :
                countOf(messages[1].reactions, e) = 0)

\* Message 0 carries two thumbs-up and one trophy, message 1 is untouched.
C10_Witness ==
  /\ Len(messages) = 2
  /\ issued[<<0, "thumbsup">>] = 2
  /\ DOMAIN messages[1].reactions = {"thumbsup"}
  /\ messages[1].reactions["thumbsup"] = 2
  /\ messages[1].matchReactions = 1
  /\ messages[2].reactions = <<>>
  /\ messages[2].matchReactions = 0

(***************************************************************************)
(* C11: handleReact(i, s) and handleMatchReaction(i) with i past the last  *)
(* message leave the ledger unchanged: same messages, texts and counts.    *)
(***************************************************************************)
C11_OutOfRangeNoOp ==
  [][\A idx \in IndexInputs :
       idx >= Len(messages) =>
         /\ \A emoji \in SymbolInputs :
              handleReact(idx, emoji) => UNCHANGED <<messages, chatInput>>
         /\ handleMatchReaction(idx) => UNCHANGED <<messages, chatInput>>]_vars

\* One message that carries counts: the indices 1 and 2 are out of range.
C11_Witness ==
  /\ Len(messages) = 1
  /\ rMessages = messages
  /\ countOf(messages[1].reactions, "thumbsup") = 1
  /\ messages[1].matchReactions = 1
  /\ issued[<<1, "thumbsup">>] = 0
  /\ issued[<<1, MatchKey>>] = 0

\* r is t without the white space at its two ends.
isTrimOf(r, t) ==
  /\ r = <<>> \/ (r[1] \notin WhiteSpace /\ r[Len(r)] \notin WhiteSpace)
  /\ \E a \in 0..Len(t) :
       /\ a + Len(r) <= Len(t)
       /\ \A j \in 1..Len(t) :
            IF j > a /\ j <= a + Len(r) THEN t[j] = r[j - a]
            ELSE t[j] \in WhiteSpace

(***************************************************************************)
(* C13: handleSendMessage on the input text t it reads: when t trimmed is  *)
(* empty the ledger is unchanged; otherwise exactly one message is added   *)
(* at the end of the log, with text t trimmed, no reactions and            *)
(* matchReactions 0.                                                       *)
(***************************************************************************)
C13_Send ==
  [][handleSendMessage =>
       IF \A j \in 1..Len(rChatInput) : rChatInput[j] \in WhiteSpace
       THEN UNCHANGED <<messages, chatInput>>
       ELSE /\ Len(messages') = Len(messages) + 1
            /\ \A j \in 1..Len(messages) : messages'[j] = messages[j]
            /\ LET new == messages'[Len(messages) + 1]
               IN /\ new.text # <<>>
                  /\ isTrimOf(new.text, rChatInput)
                  /\ DOMAIN new.reactions = {}
                  /\ new.matchReactions = 0]_vars

\* The text typed with blanks around it has been sent and is stored without
\* them; the render that showed the input is still the current one.
C13_Witness ==
  /\ rChatInput = <<" ", " ", "h", "i", " ", " ">>
  /\ Len(messages) = 1
  /\ messages[1].text = <<"h", "i">>
  /\ messages[1].reactions = <<>>
  /\ messages[1].matchReactions = 0
  /\ chatInput = <<>>

(***************************************************************************)
(* C14: the log is append-only: no step lowers the number of messages or   *)
(* changes the text at a position that exists, and every stored text is    *)
(* non-empty with no white space at either end.                            *)
(***************************************************************************)
C14_AppendOnly ==
  /\ [][\A i \in 1..Len(messages) :
          /\ i <= Len(messages')
          /\ messages'[i].text = messages[i].text]_vars
  /\ [](\A i \in 1..Len(messages) :
          LET t == messages[i].text
          IN /\ t # <<>>
             /\ t[1] \notin WhiteSpace
             /\ t[Len(t)] \notin WhiteSpace)

\* Two messages with different texts, in the order they were sent, both
\* reacted to after the second was sent.
C14_Witness ==
  /\ Len(messages) = 2
  /\ messages[1].text = <<"h", "i">>
  /\ messages[2].text = <<"y", "o">>
  /\ countOf(messages[1].reactions, "thumbsup") = 1
  /\ messages[2].matchReactions = 1

(***************************************************************************)
(* C15: the two components are independent: a step that changes the       *)
(* message log or the chat input is no handleClick and no handleReset, and *)
(* a step that changes the board, the turn, the status or the stored       *)
(* outcome is no handleSendMessage, handleReact, handleMatchReaction or    *)
(* input change.                                                           *)
(***************************************************************************)
C15_Independent ==
  [][/\ chatState' # chatState =>
          /\ \A idx \in Cells : ~handleClick(idx)
          /\ ~handleReset
     /\ boardState' # boardState =>
          /\ ~handleSendMessage
          /\ \A idx \in IndexInputs :
               /\ ~handleMatchReaction(idx)
               /\ \A emoji \in SymbolInputs : ~handleReact(idx, emoji)
          /\ \A value \in TextInputs \cup LogTexts : ~onChange(value)]_vars

\* A reset has just been issued on a won board, the log is as it was: one
\* message with a thumbs-up and a trophy.
C15_Witness ==
  /\ resetStage = 1
  /\ calculateWinner(rSquares) # Null
  /\ rWinner # Null
  /\ squares = initialState
  /\ Len(messages) = 1
  /\ rMessages = messages
  /\ countOf(messages[1].reactions, "thumbsup") = 1
  /\ messages[1].matchReactions = 1

(***************************************************************************)
(* C16: in no reachable state do both marks own a completed line: neither  *)
(* the board held by the hook nor the rendered board has a line of three X *)
(* and a line of three O.                                                  *)
(***************************************************************************)
C16_OneOwner ==
  \A sq \in {squares, rSquares} :
    \A k, j \in wonLines(sq) : sq[lines[k][1]] = sq[lines[j][1]]

\* The won lines of sq that hold the mark m.
wonLinesOf(sq, m) == {k \in wonLines(sq) : sq[lines[k][1]] = m}

(***************************************************************************)
(* C17 as stated: no reachable board contains two distinct lines filled    *)
(* with the same mark.  Stated for the boards most favourable to the code: *)
(* rendered boards on which every won line belongs to one mark.            *)
(***************************************************************************)
C17_OneLinePerMark ==
  (rSquares = squares /\ \E m \in Marks : wonLines(squares) = wonLinesOf(squares, m))
    => Cardinality(wonLines(squares)) <= 1

(***************************************************************************)
(* C17, amended: a single accepted move completes at most two new lines.   *)
(* No reachable board contains three lines filled with the same mark; two  *)
(* lines of the same mark belong to X on a board with five X, and they     *)
(* cross in exactly one cell.                                              *)
(***************************************************************************)
C17_AtMostTwoLines ==
  \A sq \in {squares, rSquares} :
    \A m \in Marks :
      /\ Cardinality(wonLinesOf(sq, m)) <= 2
      /\ Cardinality(wonLinesOf(sq, m)) = 2 => (m = "X" /\ count(sq, "X") = 5)
      /\ \A k, j \in wonLinesOf(sq, m) :
           k # j => Cardinality(lineCells(k) \cap lineCells(j)) = 1

\* The ninth move has completed a row and a column for X at once, and the
\* effect has stored the winner.
C17_Witness ==
  /\ rSquares = squares
  /\ winner = "X"
  /\ ~effectPending
  /\ Cardinality(wonLinesOf(squares, "X")) = 2
  /\ \E k, j \in wonLinesOf(squares, "X") : k <= 3 /\ j \in 4..6

(***************************************************************************)
(* C18: after every board mutation the outcome effect runs: an accepted    *)
(* handleClick (the dependencies of the effect differ from the rendered    *)
(* ones) or a handleReset leads to a render that schedules the effect, and *)
(* a scheduled effect is run.  In every state where it has run for the     *)
(* current board, the stored winner is calculateWinner(squares) and the    *)
(* stored isDraw is (all nine cells filled and no line won).  winner and   *)
(* isDraw are never both set.                                              *)
(***************************************************************************)
C18_OutcomeInSync ==
  /\ [](~(winner # Null /\ isDraw))
  /\ []((~depsChanged /\ ~effectPending) =>
          /\ winner = calculateWinner(squares)
          /\ isDraw = (every(squares) /\ wonLines(squares) = {}))
  /\ ((depsChanged \/ resetStage = 1) ~> effectPending)
  /\ (effectPending ~> ~effectPending)

(***************************************************************************)
(* C19: every handleClick that passes its guard is applied in full: the    *)
(* number of occupied cells equals the number of clicks accepted since the *)
(* last reset, and it is X's turn iff the board holds as many X as O.      *)
(***************************************************************************)
C19_AppliedInFull ==
  /\ count(squares, "X") + count(squares, "O") = accepted
  /\ isXNext <=> (count(squares, "X") = count(squares, "O"))

(***************************************************************************)
(* C20: in a run without handleReset at most nine clicks are accepted:     *)
(* the count of the clicks accepted since the last reset never exceeds 9.  *)
(***************************************************************************)
C20_AtMostNineClicks == accepted <= 9

====
